---- MODULE Spec2Model ----
(***************************************************************************)
(* chimera_conf: layered configuration resolution.                         *)
(*                                                                         *)
(* The model follows src/src/chimera_conf/utilities.py (merge, path        *)
(* derivation, loading), chimera_form.py (the active form registry) and    *)
(* chimera_conf.py (ChimeraConf.config_files and ChimeraConf.manifest).    *)
(*                                                                         *)
(* Python values are modelled as follows.                                  *)
(*   str            a sequence of one-character strings                    *)
(*   dict           a function from a finite set of keys to values         *)
(*   a dict value   a record [kind, val]: kind "scalar" (val a string),    *)
(*                  "seq" (val a tuple) or "map" (val a dict)              *)
(*   Optional[T]    a sequence of length 0 (None) or 1                     *)
(***************************************************************************)
EXTENDS Integers, Sequences, FiniteSets, TLC

VARIABLES
    \* ---- inputs and outputs of the pure helpers (SpecMerge, SpecPaths)
    fn_phase,          \* "input" until a helper has been applied, then its name
    in_dicts,          \* list[dict]: arguments of _merge_dicts / _merge_all_dicts
    in_files,          \* list[str]: argument of _add_config_set_files
    in_form,           \* str: the config_set argument
    fn_out,            \* what the helper returned
    \* ---- ChimeraForm (chimera_form.py)
    chimera_form,      \* the class attribute ChimeraForm.chimera_form
    last_set,          \* history: argument of the latest set_form, if any
    n_sets,            \* history: number of set_form calls so far
    \* ---- one ChimeraConf.manifest call per thread (chimera_conf.py)
    pc,                \* where the call stands
    arg_form,          \* Optional[str]: the chimera_form argument
    arg_override,      \* Optional[list]: the config_files_override argument
    cls_decl,          \* what cls declares as _config_files
    form,              \* the local chimera_form after lines 101-106
    files_to_load,     \* the local files_to_load
    all_config_files,  \* the local all_config_files
    answers,           \* history: what each _load_yaml call met, in order
    config_dicts,      \* the list _load_configs is filling
    merged_config,     \* the local merged_config
    result,            \* what the call returned or raised
    n_calls            \* history: number of manifest calls started

vars == <<fn_phase, in_dicts, in_files, in_form, fn_out,
          chimera_form, last_set, n_sets,
          pc, arg_form, arg_override, cls_decl, form, files_to_load,
          all_config_files, answers, config_dicts, merged_config, result, n_calls>>

fn_vars == <<fn_phase, in_dicts, in_files, in_form, fn_out>>
form_vars == <<chimera_form, last_set, n_sets>>
call_vars == <<pc, arg_form, arg_override, cls_decl, form, files_to_load,
               all_config_files, answers, config_dicts, merged_config, result, n_calls>>

----------------------------------------------------------------------------
(* Bounds *)

MaxSets == 2        \* set_form calls in a behaviour
MaxCalls == 2       \* manifest calls started in a behaviour
MaxPathLen == 5     \* characters of a file path given to the path helpers
MaxShortLen == 2    \* characters of a path in a list of several paths
MaxFiles == 2       \* paths in a list given to _add_config_set_files

----------------------------------------------------------------------------
(* Values *)

None == <<>>
Some(x) == <<x>>
IsNone(o) == Len(o) = 0

Scalar(s) == [kind |-> "scalar", val |-> s]
SeqV(q) == [kind |-> "seq", val |-> q]
MapV(m) == [kind |-> "map", val |-> m]
IsDict(v) == v.kind = "map"

EmptyMap == [k \in {} |-> 0]

\* merged[k] = v on a dict
Put(m, k, v) == [x \in DOMAIN m \cup {k} |-> IF x = k THEN v ELSE m[x]]

\* every dict with keys among `keys` and values among `vals`
Maps(keys, vals) == UNION {[S -> vals] : S \in SUBSET keys}

----------------------------------------------------------------------------
(* utilities.py: _merge_dicts and _merge_all_dicts *)

RECURSIVE merge_dicts(_, _)
RECURSIVE merge_loop(_, _, _)

\* a plausible slip: dict.update semantics, the overlay's value always wins
merge_item_shallow(merged, overlay_key, overlay_value) == overlay_value

\* lines 15-24: the value stored at overlay_key
merge_item(merged, overlay_key, overlay_value) ==
    IF overlay_key \in DOMAIN merged
    THEN IF IsDict(overlay_value) /\ IsDict(merged[overlay_key])
         THEN MapV(merge_dicts(merged[overlay_key].val, overlay_value.val))
         ELSE overlay_value
    ELSE overlay_value

\* line 14: the loop over overlay.items(); todo are the keys not yet visited
merge_loop(merged, overlay, todo) ==
    IF todo = {} THEN merged
    ELSE LET k == CHOOSE x \in todo : TRUE
         IN merge_loop(Put(merged, k, merge_item(merged, k, overlay[k])),
                       overlay, todo \ {k})

\* lines 11-26; base.copy() is the value `base` itself, values being immutable here
merge_dicts(base, overlay) == merge_loop(base, overlay, DOMAIN overlay)

RECURSIVE reduce_merge(_, _)
\* functools.reduce(_merge_dicts, dicts, acc)
reduce_merge(acc, dicts) ==
    IF dicts = <<>> THEN acc
    ELSE reduce_merge(merge_dicts(acc, Head(dicts)), Tail(dicts))

\* a plausible slip: the fold runs from the last dict to the first
merge_all_dicts_reversed(dicts) ==
    reduce_merge(EmptyMap, [i \in 1..Len(dicts) |-> dicts[Len(dicts) + 1 - i]])

\* line 111
merge_all_dicts(dicts) == reduce_merge(EmptyMap, dicts)

----------------------------------------------------------------------------
(* Python str and os.path operations used by utilities.py *)

\* str.rfind(ch) + 1: the position of the last ch in s, 0 when there is none
RFind(s, ch) ==
    IF \E i \in 1..Len(s) : s[i] = ch
    THEN CHOOSE i \in 1..Len(s) : s[i] = ch /\ \A j \in (i+1)..Len(s) : s[j] # ch
    ELSE 0

\* str.find(ch) + 1
Find(s, ch) ==
    IF \E i \in 1..Len(s) : s[i] = ch
    THEN CHOOSE i \in 1..Len(s) : s[i] = ch /\ \A j \in 1..(i-1) : s[j] # ch
    ELSE 0

RECURSIVE str_split(_, _)
\* s.split(sep) for a one-character sep
str_split(s, sep) ==
    LET i == Find(s, sep)
    IN IF i = 0 THEN <<s>>
       ELSE <<SubSeq(s, 1, i-1)>> \o str_split(SubSeq(s, i+1, Len(s)), sep)

RECURSIVE str_join(_, _)
\* sep.join(parts)
str_join(sep, parts) ==
    IF parts = <<>> THEN <<>>
    ELSE IF Len(parts) = 1 THEN parts[1]
    ELSE parts[1] \o sep \o str_join(sep, Tail(parts))

RECURSIVE str_rstrip(_, _)
\* s.rstrip(ch)
str_rstrip(s, ch) ==
    IF s # <<>> /\ s[Len(s)] = ch THEN str_rstrip(SubSeq(s, 1, Len(s)-1), ch) ELSE s

StartsWith(s, old) == Len(old) <= Len(s) /\ SubSeq(s, 1, Len(old)) = old

RECURSIVE str_replace(_, _, _)
\* s.replace(old, new): every non-overlapping occurrence, left to right
str_replace(s, old, new) ==
    IF old = <<>>
    THEN IF s = <<>> THEN new ELSE new \o <<s[1]>> \o str_replace(Tail(s), old, new)
    ELSE IF s = <<>> THEN <<>>
    ELSE IF StartsWith(s, old)
         THEN new \o str_replace(SubSeq(s, Len(old)+1, Len(s)), old, new)
         ELSE <<s[1]>> \o str_replace(Tail(s), old, new)

\* posixpath.split(p): <<head, tail>>
os_path_split(p) ==
    LET i == RFind(p, "/")
        head == SubSeq(p, 1, i)
        tail == SubSeq(p, i+1, Len(p))
    IN IF head # <<>> /\ \E j \in 1..Len(head) : head[j] # "/"
       THEN <<str_rstrip(head, "/"), tail>>
       ELSE <<head, tail>>

----------------------------------------------------------------------------
(* utilities.py: _split_package_file_path and _add_config_set_files *)

\* lines 41-44: <<package_path, file_name>>
split_package_file_path(file_path) ==
    LET full_path == os_path_split(file_path)[1]
        file_name == os_path_split(file_path)[2]
        package_path == str_replace(str_replace(full_path, file_name, <<>>),
                                    <<"/">>, <<".">>)
    IN <<package_path, file_name>>

\* a plausible slip: slashes are turned into dots when the overlay is named
overlay_file_dotted(config_file, config_set) ==
    LET file_parts == str_split(config_file, ".")
        all_path_parts == SubSeq(file_parts, 1, Len(file_parts)-1) \o <<config_set>>
                          \o <<file_parts[Len(file_parts)]>>
    IN str_replace(str_join(<<".">>, all_path_parts), <<"/">>, <<".">>)

\* lines 118-123: new_file_path for one config_file
overlay_file(config_file, config_set) ==
    LET file_parts == str_split(config_file, ".")
        file_extension == file_parts[Len(file_parts)]
        remainder_of_file_path == SubSeq(file_parts, 1, Len(file_parts)-1)
        all_path_parts == remainder_of_file_path \o <<config_set>> \o <<file_extension>>
    IN str_join(<<".">>, all_path_parts)

RECURSIVE environment_config_files(_, _, _)
\* lines 115-125: the loop appending one overlay per config file
environment_config_files(acc, config_files, config_set) ==
    IF config_files = <<>> THEN acc
    ELSE environment_config_files(Append(acc, overlay_file(Head(config_files), config_set)),
                                  Tail(config_files), config_set)

\* a plausible slip: the environment files go first
add_config_set_files_first(config_files, config_set) ==
    environment_config_files(<<>>, config_files, config_set) \o config_files

\* lines 114-128
add_config_set_files(config_files, config_set) ==
    config_files \o environment_config_files(<<>>, config_files, config_set)

----------------------------------------------------------------------------
(* chimera_form.py: ChimeraForm *)

Local == <<"l", "o", "c", "a", "l">>
Prod == <<"p", "r", "o", "d">>
Dev == <<"d", "e", "v">>

\* a plausible slip: only the first set_form takes effect
set_form_first_wins(new_form) ==
    chimera_form' = IF chimera_form = Local THEN new_form ELSE chimera_form

\* lines 27-29
set_form(new_form) == chimera_form' = new_form

\* ChimeraForm.set_form(new_form), called from any thread at any time
SetForm(new_form) ==
    /\ n_sets < MaxSets
    /\ set_form(new_form)
    /\ last_set' = Some(new_form)
    /\ n_sets' = n_sets + 1
    /\ UNCHANGED fn_vars
    /\ UNCHANGED call_vars

----------------------------------------------------------------------------
(* chimera_conf.py: ChimeraConf.config_files and ChimeraConf.manifest *)

Threads == {"t1", "t2"}

\* an entry of a file list: a str, or something that is not a str
StrE(chars) == [is_str |-> TRUE, chars |-> chars]
NonStr == [is_str |-> FALSE, chars |-> <<>>]

\* what a class declares as _config_files: nothing, a non-list, or a list
Decl(name, kind, val) == [name |-> name, kind |-> kind, val |-> val]

\* the outcome of a function: raised is "" when it returned val
Returned(v) == [raised |-> "", val |-> v]
Raised(e) == [raised |-> e, val |-> <<>>]

NoClass == Decl("", "missing", <<>>)

\* what manifest gave its caller
NoResult == [kind |-> "none", err |-> "", about |-> "", val |-> EmptyMap]
Instance(m) == [kind |-> "instance", err |-> "", about |-> "", val |-> m]
Failure(e, about) == [kind |-> "raised", err |-> e, about |-> about, val |-> EmptyMap]

\* lines 41-68: cls.config_files()
config_files(decl) ==
    IF decl.kind = "missing" THEN Raised("NotImplementedError")
    ELSE IF decl.kind # "list" THEN Raised("ValueError")
    ELSE IF Len(decl.val) = 0 THEN Raised("ValueError")
    ELSE Returned(decl.val)

\* a plausible slip: the declaration is consulted before the override is looked at
select_files_decl_first(config_files_override, decl) ==
    IF config_files(decl).raised \in {"AttributeError", "NotImplementedError", "ValueError"}
    THEN Raised("ConfigFilesRequired")
    ELSE IF ~IsNone(config_files_override) THEN Returned(config_files_override[1])
    ELSE config_files(decl)

\* lines 108-121: files_to_load, or the ValueError that names the class
select_files(config_files_override, decl) ==
    IF ~IsNone(config_files_override)
    THEN Returned(config_files_override[1])
    ELSE IF config_files(decl).raised \in {"AttributeError", "NotImplementedError", "ValueError"}
         THEN Raised("ConfigFilesRequired")
         ELSE config_files(decl)

\* line 123 on a list that may hold non-str entries: config_file.split of line 118
\* raises AttributeError on the first of them
derive_files(files, config_set) ==
    IF \E i \in 1..Len(files) : ~files[i].is_str
    THEN Raised("AttributeError")
    ELSE Returned(add_config_set_files([i \in 1..Len(files) |-> files[i].chars], config_set))

\* what importlib.resources and yaml.safe_load meet for one file: no such file,
\* another failure (raised as err), an empty document (None) or a mapping
NotFound == [kind |-> "not_found", err |-> "", val |-> EmptyMap]
LoadError(e) == [kind |-> "error", err |-> e, val |-> EmptyMap]
ParsedNone == [kind |-> "none", err |-> "", val |-> EmptyMap]
Parsed(m) == [kind |-> "mapping", err |-> "", val |-> m]

\* a plausible slip: a missing file yields None, as an empty file does
load_yaml_none_when_missing(met) ==
    IF met.kind = "not_found" THEN Returned(None)
    ELSE IF met.kind = "error" THEN Raised(met.err)
    ELSE IF met.kind = "none" THEN Returned(None)
    ELSE Returned(Some(met.val))

\* a plausible slip: FileNotFoundError is not caught
load_yaml_no_catch(met) ==
    IF met.kind = "not_found" THEN Raised("FileNotFoundError")
    ELSE IF met.kind = "error" THEN Raised(met.err)
    ELSE IF met.kind = "none" THEN Returned(None)
    ELSE Returned(Some(met.val))

\* lines 60-74: the Optional[dict] returned, or the exception re-raised
load_yaml(met) ==
    IF met.kind = "not_found" THEN Returned(Some(EmptyMap))
    ELSE IF met.kind = "error" THEN Raised(met.err)
    ELSE IF met.kind = "none" THEN Returned(None)
    ELSE Returned(Some(met.val))

\* lines 94-95
append_config(dicts, config_dict) ==
    IF ~IsNone(config_dict) THEN Append(dicts, config_dict[1]) ELSE dicts

\* manifest(chimera_form, config_files_override) is called on a class
Manifest(c, form_args, override_args, decls) ==
    /\ pc[c] = "idle"
    /\ n_calls < MaxCalls
    /\ \E f \in form_args, o \in override_args, d \in decls :
          /\ arg_form' = [arg_form EXCEPT ![c] = f]
          /\ arg_override' = [arg_override EXCEPT ![c] = o]
          /\ cls_decl' = [cls_decl EXCEPT ![c] = d]
    /\ pc' = [pc EXCEPT ![c] = "form"]
    /\ n_calls' = n_calls + 1
    /\ UNCHANGED <<form, files_to_load, all_config_files, answers, config_dicts,
                   merged_config, result>>
    /\ UNCHANGED fn_vars
    /\ UNCHANGED form_vars

\* lines 101-106: the form this call uses
read_form(c) == IF IsNone(arg_form[c]) THEN chimera_form ELSE arg_form[c][1]

\* lines 101-106; line 104 reads the registry too, for the log message only
ReadForm(c) ==
    /\ pc[c] = "form"
    /\ form' = [form EXCEPT ![c] = read_form(c)]
    /\ pc' = [pc EXCEPT ![c] = "files"]
    /\ UNCHANGED <<arg_form, arg_override, cls_decl, files_to_load, all_config_files,
                   answers, config_dicts, merged_config, result, n_calls>>
    /\ UNCHANGED fn_vars
    /\ UNCHANGED form_vars

\* lines 108-121
SelectFiles(c) ==
    /\ pc[c] = "files"
    /\ LET r == select_files(arg_override[c], cls_decl[c])
       IN IF r.raised # ""
          THEN /\ result' = [result EXCEPT ![c] = Failure(r.raised, cls_decl[c].name)]
               /\ pc' = [pc EXCEPT ![c] = "done"]
               /\ UNCHANGED files_to_load
          ELSE /\ files_to_load' = [files_to_load EXCEPT ![c] = r.val]
               /\ pc' = [pc EXCEPT ![c] = "derive"]
               /\ UNCHANGED result
    /\ UNCHANGED <<arg_form, arg_override, cls_decl, form, all_config_files,
                   answers, config_dicts, merged_config, n_calls>>
    /\ UNCHANGED fn_vars
    /\ UNCHANGED form_vars

\* a plausible slip: the registry is read again when the overlays are named
overlay_form_reread(c) == chimera_form

\* line 123: the chimera_form argument is the local set by lines 101-106
overlay_form(c) == form[c]

\* line 123
DeriveFiles(c) ==
    /\ pc[c] = "derive"
    /\ LET r == derive_files(files_to_load[c], overlay_form(c))
       IN IF r.raised # ""
          THEN /\ result' = [result EXCEPT ![c] = Failure(r.raised, "")]
               /\ pc' = [pc EXCEPT ![c] = "done"]
               /\ UNCHANGED all_config_files
          ELSE /\ all_config_files' = [all_config_files EXCEPT ![c] = r.val]
               /\ pc' = [pc EXCEPT ![c] = "load"]
               /\ UNCHANGED result
    /\ UNCHANGED <<arg_form, arg_override, cls_decl, form, files_to_load,
                   answers, config_dicts, merged_config, n_calls>>
    /\ UNCHANGED fn_vars
    /\ UNCHANGED form_vars

\* lines 90-95 of utilities.py: one turn of the loop of _load_configs, called at
\* line 126; `meets` is what the file system and the parser may answer
LoadYaml(c, meets) ==
    /\ pc[c] = "load"
    /\ Len(answers[c]) < Len(all_config_files[c])
    /\ \E met \in meets :
          LET file_path == all_config_files[c][Len(answers[c]) + 1]
              package_path == split_package_file_path(file_path)[1]
              file_name == split_package_file_path(file_path)[2]
              r == load_yaml(met)
          IN /\ answers' = [answers EXCEPT ![c] =
                    Append(@, [package_path |-> package_path, file_name |-> file_name,
                               kind |-> met.kind, err |-> met.err, val |-> met.val])]
             /\ IF r.raised # ""
                THEN /\ result' = [result EXCEPT ![c] = Failure(r.raised, "")]
                     /\ pc' = [pc EXCEPT ![c] = "done"]
                     /\ UNCHANGED config_dicts
                ELSE /\ config_dicts' = [config_dicts EXCEPT ![c] = append_config(@, r.val)]
                     /\ UNCHANGED <<result, pc>>
    /\ UNCHANGED <<arg_form, arg_override, cls_decl, form, files_to_load,
                   all_config_files, merged_config, n_calls>>
    /\ UNCHANGED fn_vars
    /\ UNCHANGED form_vars

\* line 97 of utilities.py: _load_configs returns config_dicts
LoadDone(c) ==
    /\ pc[c] = "load"
    /\ Len(answers[c]) = Len(all_config_files[c])
    /\ pc' = [pc EXCEPT ![c] = "merge"]
    /\ UNCHANGED <<arg_form, arg_override, cls_decl, form, files_to_load, all_config_files,
                   answers, config_dicts, merged_config, result, n_calls>>
    /\ UNCHANGED fn_vars
    /\ UNCHANGED form_vars

\* line 129
MergeAll(c) ==
    /\ pc[c] = "merge"
    /\ merged_config' = [merged_config EXCEPT ![c] = Some(merge_all_dicts(config_dicts[c]))]
    /\ pc' = [pc EXCEPT ![c] = "construct"]
    /\ UNCHANGED <<arg_form, arg_override, cls_decl, form, files_to_load, all_config_files,
                   answers, config_dicts, result, n_calls>>
    /\ UNCHANGED fn_vars
    /\ UNCHANGED form_vars

\* line 132: cls(**merged_config); pydantic accepts the mapping or rejects it
Construct(c) ==
    /\ pc[c] = "construct"
    /\ \E accepted \in BOOLEAN :
          result' = [result EXCEPT ![c] =
                        IF accepted THEN Instance(merged_config[c][1])
                        ELSE Failure("ValidationError", "")]
    /\ pc' = [pc EXCEPT ![c] = "done"]
    /\ UNCHANGED <<arg_form, arg_override, cls_decl, form, files_to_load, all_config_files,
                   answers, config_dicts, merged_config, n_calls>>
    /\ UNCHANGED fn_vars
    /\ UNCHANGED form_vars

\* the call is over and its frame is gone
Return(c) ==
    /\ pc[c] = "done"
    /\ pc' = [pc EXCEPT ![c] = "idle"]
    /\ arg_form' = [arg_form EXCEPT ![c] = None]
    /\ arg_override' = [arg_override EXCEPT ![c] = None]
    /\ cls_decl' = [cls_decl EXCEPT ![c] = NoClass]
    /\ form' = [form EXCEPT ![c] = <<>>]
    /\ files_to_load' = [files_to_load EXCEPT ![c] = <<>>]
    /\ all_config_files' = [all_config_files EXCEPT ![c] = <<>>]
    /\ answers' = [answers EXCEPT ![c] = <<>>]
    /\ config_dicts' = [config_dicts EXCEPT ![c] = <<>>]
    /\ merged_config' = [merged_config EXCEPT ![c] = None]
    /\ result' = [result EXCEPT ![c] = NoResult]
    /\ UNCHANGED n_calls
    /\ UNCHANGED fn_vars
    /\ UNCHANGED form_vars

----------------------------------------------------------------------------
(* Inputs *)

SeqsUpTo(S, n) == UNION {[1..k -> S] : k \in 0..n}

S1 == Scalar("1")
S2 == Scalar("2")
Q1 == SeqV(<<"1">>)

\* dict values: scalars, a sequence, dicts of them, and dicts of dicts
LeafValues == {S1, S2, Q1}
DeepValues == {MapV(m) : m \in Maps({"c"}, {S1, S2})}
InnerValues == LeafValues \cup {MapV(m) : m \in Maps({"a", "b"}, LeafValues)}
                          \cup {MapV(m) : m \in Maps({"a"}, DeepValues)}

\* pairs for _merge_dicts, triples on one field for _merge_all_dicts
MergeInputs == (Maps({"x", "y"}, InnerValues) \X Maps({"x", "y"}, InnerValues))
               \cup (Maps({"x"}, InnerValues) \X Maps({"x"}, InnerValues)
                     \X Maps({"x"}, InnerValues))

\* "a/b.yml" and "a/b/a.b"
ExtraPaths == {<<"a", "/", "b", ".", "y", "m", "l">>, <<"a", "/", "b", "/", "a", ".", "b">>}
LongPaths == SeqsUpTo({"a", "b", "/", "."}, MaxPathLen) \cup ExtraPaths
ShortPaths == SeqsUpTo({"a", "."}, MaxShortLen)

\* ["a.yml", "b.yml"]
ExtraLists == {<< <<"a", ".", "y", "m", "l">>, <<"b", ".", "y", "m", "l">> >>}
FileListInputs == {<<p>> : p \in LongPaths} \cup SeqsUpTo(ShortPaths, MaxFiles)
                  \cup ExtraLists
FormInputs == {<<>>, Prod, Dev, <<"/">>, <<".">>}

\* "a.yml" and "c/b.yml"
P1 == <<"a", ".", "y", "m", "l">>
P2 == <<"c", "/", "b", ".", "y", "m", "l">>

NoFiles == Decl("NoFiles", "missing", <<>>)
BadFiles == Decl("BadFiles", "not_list", <<>>)
EmptyFiles == Decl("EmptyFiles", "list", <<>>)
OneFile == Decl("OneFile", "list", <<StrE(P1)>>)
TwoFiles == Decl("TwoFiles", "list", <<StrE(P1), StrE(P2)>>)
MixedFiles == Decl("MixedFiles", "list", <<StrE(P1), NonStr>>)

\* {"timeout": 10, "nested": {"a": 1, "b": 2}}, {"nested": {"b": 99}}, {"x": 1}
BaseCfg == [timeout |-> Scalar("10"), nested |-> MapV([a |-> Scalar("1"), b |-> Scalar("2")])]
OverlayCfg == [nested |-> MapV([b |-> Scalar("99")])]
X1 == [x |-> Scalar("1")]

RichForms == {None, Some(Prod), Some(<<>>)}
RichOverrides == {None, Some(<<>>), Some(<<StrE(P2)>>), Some(<<NonStr>>)}
RichDecls == {NoFiles, BadFiles, EmptyFiles, OneFile, TwoFiles, MixedFiles}
RichMeets == {NotFound, LoadError("PermissionError"), LoadError("YAMLError"), ParsedNone,
              Parsed(BaseCfg), Parsed(OverlayCfg), Parsed(X1)}

LeanForms == {None, Some(Dev)}
LeanOverrides == {None}
LeanDecls == {OneFile}
LeanMeets == {NotFound, Parsed(X1)}

SetForms == {Prod, Dev}

----------------------------------------------------------------------------
(* The pure helpers, applied to drawn inputs *)

\* _merge_dicts(base, overlay)
ApplyMergeDicts ==
    /\ fn_phase = "input"
    /\ Len(in_dicts) = 2
    /\ fn_out' = merge_dicts(in_dicts[1], in_dicts[2])
    /\ fn_phase' = "merge_dicts"
    /\ UNCHANGED <<in_dicts, in_files, in_form>>
    /\ UNCHANGED form_vars
    /\ UNCHANGED call_vars

\* _merge_all_dicts(dicts)
ApplyMergeAllDicts ==
    /\ fn_phase = "input"
    /\ Len(in_dicts) = 3
    /\ fn_out' = merge_all_dicts(in_dicts)
    /\ fn_phase' = "merge_all_dicts"
    /\ UNCHANGED <<in_dicts, in_files, in_form>>
    /\ UNCHANGED form_vars
    /\ UNCHANGED call_vars

\* _add_config_set_files(config_files, config_set)
ApplyAddConfigSetFiles ==
    /\ fn_phase = "input"
    /\ fn_out' = add_config_set_files(in_files, in_form)
    /\ fn_phase' = "add_config_set_files"
    /\ UNCHANGED <<in_dicts, in_files, in_form>>
    /\ UNCHANGED form_vars
    /\ UNCHANGED call_vars

\* _split_package_file_path on every path of the derived list, as _load_configs does
ApplySplitPackageFilePath ==
    /\ fn_phase = "add_config_set_files"
    /\ fn_out' = [i \in 1..Len(fn_out) |-> split_package_file_path(fn_out[i])]
    /\ fn_phase' = "split_package_file_path"
    /\ UNCHANGED <<in_dicts, in_files, in_form>>
    /\ UNCHANGED form_vars
    /\ UNCHANGED call_vars

----------------------------------------------------------------------------
(* Specifications *)

FnOff ==
    /\ fn_phase = "off"
    /\ in_dicts = <<>>
    /\ in_files = <<>>
    /\ in_form = <<>>
    /\ fn_out = <<>>

FormInit ==
    /\ chimera_form = Local
    /\ last_set = None
    /\ n_sets = 0

CallInit ==
    /\ pc = [c \in Threads |-> "idle"]
    /\ arg_form = [c \in Threads |-> None]
    /\ arg_override = [c \in Threads |-> None]
    /\ cls_decl = [c \in Threads |-> NoClass]
    /\ form = [c \in Threads |-> <<>>]
    /\ files_to_load = [c \in Threads |-> <<>>]
    /\ all_config_files = [c \in Threads |-> <<>>]
    /\ answers = [c \in Threads |-> <<>>]
    /\ config_dicts = [c \in Threads |-> <<>>]
    /\ merged_config = [c \in Threads |-> None]
    /\ result = [c \in Threads |-> NoResult]
    /\ n_calls = 0

\* the process after import: the form is "local" and no call is in flight
Init == FnOff /\ FormInit /\ CallInit

\* one thread calling manifest, with set_form calls in between its steps
Next ==
    \/ \E f \in SetForms : SetForm(f)
    \/ Manifest("t1", RichForms, RichOverrides, RichDecls)
    \/ ReadForm("t1")
    \/ SelectFiles("t1")
    \/ DeriveFiles("t1")
    \/ LoadYaml("t1", RichMeets)
    \/ LoadDone("t1")
    \/ MergeAll("t1")
    \/ Construct("t1")
    \/ Return("t1")

Spec == Init /\ [][Next]_vars

\* two threads calling manifest concurrently, and set_form calls
NextConc ==
    \/ \E f \in SetForms : SetForm(f)
    \/ \E c \in Threads :
          \/ Manifest(c, LeanForms, LeanOverrides, LeanDecls)
          \/ ReadForm(c)
          \/ SelectFiles(c)
          \/ DeriveFiles(c)
          \/ LoadYaml(c, LeanMeets)
          \/ LoadDone(c)
          \/ MergeAll(c)
          \/ Construct(c)
          \/ Return(c)

SpecConc == Init /\ [][NextConc]_vars

InitMerge ==
    /\ fn_phase = "input"
    /\ in_dicts \in MergeInputs
    /\ in_files = <<>>
    /\ in_form = <<>>
    /\ fn_out = <<>>
    /\ FormInit
    /\ CallInit

NextMerge == ApplyMergeDicts \/ ApplyMergeAllDicts

SpecMerge == InitMerge /\ [][NextMerge]_vars

InitPaths ==
    /\ fn_phase = "input"
    /\ in_dicts = <<>>
    /\ in_files \in FileListInputs
    /\ in_form \in FormInputs
    /\ fn_out = <<>>
    /\ FormInit
    /\ CallInit

NextPaths == ApplyAddConfigSetFiles \/ ApplySplitPackageFilePath

SpecPaths == InitPaths /\ [][NextPaths]_vars

----------------------------------------------------------------------------
(* Claims about _merge_dicts and _merge_all_dicts, under SpecMerge *)

RECURSIVE MergedAsClaimed(_, _, _)
\* r relates to a and b as the merge contract says, at every depth
MergedAsClaimed(a, b, r) ==
    /\ DOMAIN r = DOMAIN a \cup DOMAIN b
    /\ \A k \in DOMAIN r :
          IF k \notin DOMAIN b THEN r[k] = a[k]
          ELSE IF k \notin DOMAIN a THEN r[k] = b[k]
          ELSE IF IsDict(a[k]) /\ IsDict(b[k])
               THEN /\ IsDict(r[k])
                    /\ r[k].val = merge_dicts(a[k].val, b[k].val)
                    /\ MergedAsClaimed(a[k].val, b[k].val, r[k].val)
               ELSE r[k] = b[k]

\* C1: merge(a, b) has exactly the keys of a and of b; a key of a alone keeps a's
\* value, a key of b alone has b's value, a key of both whose two values are dicts
\* has their merge (and so on inside it), and any other key of both has b's value.
C1_MergeContract ==
    fn_phase = "merge_dicts" => MergedAsClaimed(in_dicts[1], in_dicts[2], fn_out)

\* {"x": {"a": 1}, "y": 1} merged with {"x": {"a": 2, "b": [1]}}
C1_Witness ==
    /\ fn_phase = "merge_dicts"
    /\ in_dicts[1] = [x |-> MapV([a |-> S1]), y |-> S1]
    /\ in_dicts[2] = [x |-> MapV([a |-> S2, b |-> Q1])]
    /\ fn_out = [x |-> MapV([a |-> S2, b |-> Q1]), y |-> S1]

\* C2 as stated: a field set in m1 and again in m3 has m3's value after the fold,
\* whatever m2 holds for it.
C2_AsStated ==
    fn_phase = "merge_all_dicts" =>
        \A k \in DOMAIN in_dicts[1] \cap DOMAIN in_dicts[3] : fn_out[k] = in_dicts[3][k]

\* C2 amended: a field set in m1 and again in m3 has m3's value after the fold,
\* unless m3's value and the value folded from m1 and m2 are both dicts: then the
\* field holds the merge of the two, in which m3's nested fields win.
C2_FoldPrecedence ==
    fn_phase = "merge_all_dicts" =>
        \A k \in DOMAIN in_dicts[1] \cap DOMAIN in_dicts[3] :
            LET m3 == in_dicts[3]
                before == IF k \in DOMAIN in_dicts[2]
                          THEN IF IsDict(in_dicts[1][k]) /\ IsDict(in_dicts[2][k])
                               THEN MapV(merge_dicts(in_dicts[1][k].val, in_dicts[2][k].val))
                               ELSE in_dicts[2][k]
                          ELSE in_dicts[1][k]
            IN IF IsDict(m3[k]) /\ IsDict(before)
               THEN /\ IsDict(fn_out[k])
                    /\ MergedAsClaimed(before.val, m3[k].val, fn_out[k].val)
               ELSE fn_out[k] = m3[k]

\* m1 sets x to 1, m2 sets it to {"a": 1}, m3 sets it to 2
C2_Witness ==
    /\ fn_phase = "merge_all_dicts"
    /\ in_dicts[1] = [x |-> S1]
    /\ in_dicts[2] = [x |-> MapV([a |-> S1])]
    /\ in_dicts[3] = [x |-> S2]
    /\ fn_out = [x |-> S2]

----------------------------------------------------------------------------
(* Claims about _add_config_set_files and _split_package_file_path, under SpecPaths *)

\* p with v put in as a segment of its own right before p's last '.'-separated segment
InsertBeforeLastSegment(p, v) ==
    LET d == RFind(p, ".")
    IN SubSeq(p, 1, d) \o v \o <<".">> \o SubSeq(p, d + 1, Len(p))

\* C3: the derived list has twice the length of the base list; its first half is the
\* base list as given, and entry n+i is base path i with the variant inserted as a
\* segment right before the last segment, so all overlays follow all bases.
C3_DerivedList ==
    fn_phase = "add_config_set_files" =>
        LET n == Len(in_files)
        IN /\ Len(fn_out) = 2 * n
           /\ \A i \in 1..n :
                 /\ fn_out[i] = in_files[i]
                 /\ fn_out[n + i] = InsertBeforeLastSegment(in_files[i], in_form)

\* ["a.yml", "b.yml"] with "dev" gives ["a.yml", "b.yml", "a.dev.yml", "b.dev.yml"]
C3_Witness ==
    /\ fn_phase = "add_config_set_files"
    /\ in_files = << <<"a", ".", "y", "m", "l">>, <<"b", ".", "y", "m", "l">> >>
    /\ in_form = Dev
    /\ fn_out = << <<"a", ".", "y", "m", "l">>, <<"b", ".", "y", "m", "l">>,
                   <<"a", ".", "d", "e", "v", ".", "y", "m", "l">>,
                   <<"b", ".", "d", "e", "v", ".", "y", "m", "l">> >>

\* the parts of a path <location-segments>/<name>.<extension>
LocationOf(p) == SubSeq(p, 1, RFind(p, "/") - 1)
NameOf(p) == SubSeq(p, RFind(p, "/") + 1, RFind(p, ".") - 1)
ExtensionOf(p) == SubSeq(p, RFind(p, ".") + 1, Len(p))

\* p is <location-segments>/<name>.<extension>: one or more non-empty location
\* segments without '.', a non-empty name and a non-empty extension
IsDeclaredForm(p) ==
    /\ RFind(p, "/") > 1
    /\ RFind(p, ".") > RFind(p, "/") + 1
    /\ RFind(p, ".") < Len(p)
    /\ p[1] # "/"
    /\ \A i \in 1..(RFind(p, "/") - 1) :
          /\ p[i] # "."
          /\ p[i] = "/" => p[i + 1] # "/"

\* s with every '/' turned into '.'
Dotted(s) == [i \in 1..Len(s) |-> IF s[i] = "/" THEN "." ELSE s[i]]

\* C4 as stated: the overlay path of <location>/<name>.<extension> is the dotted
\* <location>.<name>.<variant>.<extension>, every '/' re-expressed as '.'.
C4_AsStated ==
    (fn_phase = "add_config_set_files" /\ Len(in_files) = 1 /\ IsDeclaredForm(in_files[1])) =>
        fn_out[2] = Dotted(LocationOf(in_files[1])) \o <<".">> \o NameOf(in_files[1])
                    \o <<".">> \o in_form \o <<".">> \o ExtensionOf(in_files[1])

\* C4 amended: the overlay path of <location>/<name>.<extension> keeps its slashes,
\* <location>/<name>.<variant>.<extension>; the '/' become '.' only when the loader
\* splits a path: for a variant without '/', the overlay is looked up as file
\* <name>.<variant>.<extension> in package <location with '.' for '/'>.
C4_OverlayPath ==
    (Len(in_files) = 1 /\ IsDeclaredForm(in_files[1])) =>
        LET p == in_files[1]
            file_name == NameOf(p) \o <<".">> \o in_form \o <<".">> \o ExtensionOf(p)
        IN /\ fn_phase = "add_config_set_files" =>
                 fn_out[2] = LocationOf(p) \o <<"/">> \o file_name
           /\ (fn_phase = "split_package_file_path" /\ \A i \in 1..Len(in_form) : in_form[i] # "/") =>
                 fn_out[2] = <<Dotted(LocationOf(p)), file_name>>

\* "a/b.yml" with "prod": "a/b.prod.yml", looked up as "b.prod.yml" in package "a"
C4_Witness ==
    /\ fn_phase = "split_package_file_path"
    /\ in_files = << <<"a", "/", "b", ".", "y", "m", "l">> >>
    /\ in_form = Prod
    /\ fn_out[2] = << <<"a">>, <<"b", ".", "p", "r", "o", "d", ".", "y", "m", "l">> >>

----------------------------------------------------------------------------
(* Claims about _load_configs and the failures of manifest, under Spec *)

\* the mapping a looked-up file stands for: its parsed mapping, else the empty one
MappingOf(answer) == IF answer.kind = "mapping" THEN answer.val ELSE EmptyMap

MappingsOf(as) == [i \in 1..Len(as) |-> MappingOf(as[i])]

IsParsedNone(answer) == answer.kind = "none"
IsKept(answer) == answer.kind # "none"
IsLoadError(answer) == answer.kind = "error"

\* C5 as stated: when no load fails, the list returned has one mapping per path,
\* in order, the empty mapping for a path not found or parsed to nothing.
C5_AsStated ==
    \A c \in Threads :
        pc[c] = "merge" =>
            /\ Len(config_dicts[c]) = Len(all_config_files[c])
            /\ config_dicts[c] = MappingsOf(answers[c])

\* C5 amended: when no load fails, the list returned holds, in input order, one
\* mapping per path that is not found (the empty mapping) or parsed to a mapping
\* (that mapping); a path whose file parses to nothing (None) gives no entry, so
\* the list is shorter than the path list by the number of such files.
C5_LoadedList ==
    \A c \in Threads :
        pc[c] = "merge" =>
            /\ Len(answers[c]) = Len(all_config_files[c])
            /\ config_dicts[c] = MappingsOf(SelectSeq(answers[c], IsKept))
            /\ Len(config_dicts[c]) =
                  Len(all_config_files[c]) - Len(SelectSeq(answers[c], IsParsedNone))

AnswerKinds(c) == [i \in 1..Len(answers[c]) |-> answers[c][i].kind]

\* a.yml parsed, c/b.yml empty, a.prod.yml missing, c/b.prod.yml parsed
C5_Witness ==
    /\ pc["t1"] = "merge"
    /\ AnswerKinds("t1") = <<"mapping", "none", "not_found", "mapping">>
    /\ config_dicts["t1"] = <<BaseCfg, EmptyMap, OverlayCfg>>

\* C6: a file not found counts as the empty mapping and never fails the call; any
\* other load failure ends the call with that very failure, right at the file it
\* hit, with no merge, no construction and no instance.
C6_LoadFailures ==
    \A c \in Threads :
        LET errs == {i \in 1..Len(answers[c]) : IsLoadError(answers[c][i])}
            folded == merge_all_dicts(MappingsOf(answers[c]))
        IN /\ errs # {} =>
                 /\ errs = {Len(answers[c])}
                 /\ pc[c] = "done"
                 /\ result[c] = Failure(answers[c][Len(answers[c])].err, "")
                 /\ IsNone(merged_config[c])
           /\ (errs = {} /\ pc[c] \in {"load", "merge", "construct"}) => result[c] = NoResult
           /\ (errs = {} /\ pc[c] \in {"construct", "done"} /\ ~IsNone(merged_config[c])) =>
                 merged_config[c] = Some(folded)
           /\ (errs = {} /\ pc[c] = "done" /\ answers[c] # <<>>) =>
                 \/ result[c] = Instance(folded)
                 \/ result[c] = Failure("ValidationError", "")
           /\ result[c].kind = "instance" => errs = {} /\ result[c].val = folded

\* the base yields {"x": 1}, the overlay does not exist: the instance is built from {"x": 1}
C6_Witness ==
    /\ pc["t1"] = "done"
    /\ AnswerKinds("t1") = <<"mapping", "not_found">>
    /\ answers["t1"][1].val = X1
    /\ result["t1"] = Instance(X1)

\* declared_files fails: nothing declared, not a list, or an empty list
DeclarationFails(decl) ==
    \/ decl.kind = "missing"
    \/ decl.kind = "not_list"
    \/ decl.kind = "list" /\ decl.val = <<>>

IsConfigFilesRequired(r) == r.kind = "raised" /\ r.err = "ConfigFilesRequired"

\* C7: a call fails with ConfigFilesRequired, naming the class, exactly when it has
\* no override list and the declaration fails; with an override list the call goes
\* on with that list whatever the declaration is.
C7_ConfigFilesRequired ==
    \A c \in Threads :
        /\ pc[c] = "done" =>
              (IsConfigFilesRequired(result[c])
                 <=> (IsNone(arg_override[c]) /\ DeclarationFails(cls_decl[c])))
        /\ IsConfigFilesRequired(result[c]) => result[c].about = cls_decl[c].name
        /\ (~IsNone(arg_override[c]) /\ pc[c] \notin {"idle", "form", "files"}) =>
              /\ files_to_load[c] = arg_override[c][1]
              /\ ~IsConfigFilesRequired(result[c])
        /\ (~IsNone(arg_override[c]) /\ pc[c] = "done") =>
              \/ result[c].kind = "instance"
              \/ result[c].err \in {"AttributeError", "PermissionError", "YAMLError",
                                    "ValidationError"}

\* a class without any declaration, called with an override list, gets its instance
C7_Witness ==
    /\ pc["t1"] = "done"
    /\ cls_decl["t1"] = NoFiles
    /\ arg_override["t1"] = Some(<<StrE(P2)>>)
    /\ result["t1"].kind = "instance"

\* C8: a declared list holding a non-string entry makes declared_files fail, so a
\* call without override fails with ConfigFilesRequired and nothing else.
C8_AsStated ==
    \A c \in Threads :
        (/\ pc[c] = "done"
         /\ IsNone(arg_override[c])
         /\ cls_decl[c].kind = "list"
         /\ \E i \in 1..Len(cls_decl[c].val) : ~cls_decl[c].val[i].is_str) =>
            IsConfigFilesRequired(result[c])

----------------------------------------------------------------------------
(* Claims about the registry and the calls that read it *)

\* overlay i of the call of thread c is base path i with the form f inserted
OverlaysUse(c, f) ==
    LET n == Len(files_to_load[c])
    IN /\ Len(all_config_files[c]) = 2 * n
       /\ \A i \in 1..n :
             all_config_files[c][n + i] = InsertBeforeLastSegment(files_to_load[c][i].chars, f)

\* C9: a call names all its overlays with its explicit form, or else with the
\* registry value of the moment it read the registry; set_form calls before that
\* read show in the overlays, set_form calls after it do not.
C9_FormOfCall ==
    /\ [](\A c \in Threads :
             /\ (pc[c] \notin {"idle", "form"} /\ ~IsNone(arg_form[c])) =>
                   form[c] = arg_form[c][1]
             /\ pc[c] \in {"load", "merge", "construct"} => OverlaysUse(c, form[c])
             /\ (pc[c] = "done" /\ result[c].err \notin {"ConfigFilesRequired", "AttributeError"})
                   => OverlaysUse(c, form[c]))
    /\ [][\A c \in Threads :
             /\ (pc[c] = "form" /\ pc'[c] = "files" /\ IsNone(arg_form[c])) =>
                   form'[c] = chimera_form
             /\ (pc[c] \notin {"idle", "form"} /\ pc'[c] # "idle") => form'[c] = form[c]
             /\ (pc[c] \in {"load", "merge", "construct", "done"} /\ pc'[c] # "idle") =>
                   all_config_files'[c] = all_config_files[c]]_vars

\* t1, without a form argument, read "prod" and finished with a.prod.yml after the
\* registry had moved on to "dev"; t2 is in flight with an explicit "dev"
C9_Witness ==
    /\ pc["t1"] = "done"
    /\ IsNone(arg_form["t1"])
    /\ form["t1"] = Prod
    /\ chimera_form = Dev
    /\ all_config_files["t1"] = <<P1, <<"a", ".", "p", "r", "o", "d", ".", "y", "m", "l">> >>
    /\ result["t1"].kind = "instance"
    /\ pc["t2"] \in {"load", "merge"}
    /\ arg_form["t2"] = Some(Dev)

\* C10: the registry holds "local" until the first set_form and the argument of the
\* latest set_form afterwards; no step of a manifest call changes it.
C10_Registry ==
    /\ [](chimera_form = IF IsNone(last_set) THEN Local ELSE last_set[1])
    /\ [](n_sets = 0 => chimera_form = Local)
    /\ [][(\E c \in Threads : pc'[c] # pc[c]) => chimera_form' = chimera_form]_vars

\* after set_form("prod") and set_form("dev"), with a failed call just finished
C10_Witness ==
    /\ n_sets = 2
    /\ chimera_form = Dev
    /\ pc["t1"] = "done"
    /\ IsNone(arg_form["t1"])
    /\ form["t1"] = Prod
    /\ result["t1"].kind = "raised"

====
